---- MODULE Spec2Model ----
(***************************************************************************)
(* Model of start.py: transcribe_audio and the helpers it calls            *)
(* (is_supported_openai_format, convert_to_mp3, get_chunk_duration,        *)
(* split_audio, transcribe_chunk, get_next_file_number).                   *)
(*                                                                         *)
(* A file name is a sequence of lexical tokens ("result", ".txt", one      *)
(* token per digit, ...), so that the glob, the regular expression, int()  *)
(* and the :03d formatting of get_next_file_number are computed on the     *)
(* characters of the name.  A path is a record naming its directory.       *)
(* The filesystem is the set of the paths that exist.                      *)
(***************************************************************************)
EXTENDS Integers, Sequences, FiniteSets, TLC

\* ------------------------------------------------------------------ bounds
\* number of calls of transcribe_audio in one behaviour
MaxRuns == 2
\* the longest audio has MaxChunks chunks
MaxChunks == 3
\* number of I/O operations (decode, export, open, write) that raise in one
\* behaviour
MaxFaults == 1

\* --------------------------------------------------------------- constants
MAX_CHUNK_SIZE == 20 * 1024 * 1024

MB == 1024 * 1024

\* 45 minutes in milliseconds (the lecture of the end-to-end scenario)
LectureMs == 45 * 60 * 1000

\* ----------------------------------------------------------------- helpers
Range(s) == {s[j] : j \in 1..Len(s)}

Min(a, b) == IF a <= b THEN a ELSE b

\* the chunk count as it would be with int(a / b)
FloorDiv(a, b) == a \div b

\* math.ceil(a / b) for a >= 0, b > 0
CeilDiv(a, b) == IF a % b = 0 THEN a \div b ELSE (a \div b) + 1

Digits == <<"0", "1", "2", "3", "4", "5", "6", "7", "8", "9">>

IsDigit(t) == t \in Range(Digits)

DigitVal(t) == (CHOOSE j \in 1..10 : Digits[j] = t) - 1

\* int("007") = 7
RECURSIVE ParseInt(_)
ParseInt(ds) ==
    IF ds = <<>> THEN 0
    ELSE 10 * ParseInt(SubSeq(ds, 1, Len(ds) - 1)) + DigitVal(ds[Len(ds)])

\* str(n) for n >= 0
RECURSIVE IntToDigits(_)
IntToDigits(n) ==
    IF n < 10 THEN <<Digits[n + 1]>>
    ELSE IntToDigits(n \div 10) \o <<Digits[(n % 10) + 1]>>

\* f"{n:03d}": zero-padded to at least three digits
Format03d(n) ==
    LET ds == IntToDigits(n)
    IN  IF Len(ds) >= 3 THEN ds
        ELSE IF Len(ds) = 2 THEN <<"0">> \o ds
        ELSE <<"0", "0">> \o ds

\* ------------------------------------------------------------------- paths
AudioPath(name) == [dir |-> "audio", name |-> name, id |-> 0]

ResultPath(name) == [dir |-> "results", name |-> name, id |-> 0]

TmpPath(n) == [dir |-> "tmp", name |-> <<>>, id |-> n]

\* the "no path" value (None)
NoPath == [dir |-> "none", name |-> <<>>, id |-> 0]

\* os.path.join(current_dir, "results") as it appears in a globbed path:
\* the text "results/" begins with the letters of "result"
ResultsDirPrefix == <<"result", "s", "/">>

\* tempfile.NamedTemporaryFile(delete=False): a name no existing file has
FreshTmp(files) ==
    TmpPath(CHOOSE n \in 0..Cardinality(files) :
              /\ TmpPath(n) \notin files
              /\ \A m \in 0..(n - 1) : TmpPath(m) \in files)

\* Path(filename).suffix.lower()
SuffixLower(name) ==
    LET suf == name[Len(name)]
    IN  IF suf = ".AAC" THEN ".aac"
        ELSE IF suf = ".MP3" THEN ".mp3"
        ELSE IF suf = ".WAV" THEN ".wav"
        ELSE suf

is_supported_openai_format(filename) ==
    SuffixLower(filename) \in
        {".flac", ".m4a", ".mp3", ".mp4", ".mpeg", ".mpga", ".oga", ".ogg",
         ".wav", ".webm"}

\* ------------------------------------------------------ get_chunk_duration
\* the planner as it would be if it sized the chunk from the file
get_chunk_duration_by_file_size(file_size) ==
    (((file_size \div 1024) \div 1024) * 8 * 60 * 1000) \div 10

\* chunk_minutes = (MAX_CHUNK_SIZE / 1024 / 1024) * 0.8, kept in tenths of a
\* minute; int(chunk_minutes * 60 * 1000).  MAX_CHUNK_SIZE is a whole number
\* of megabytes, so both divisions are exact.
get_chunk_duration(file_size) ==
    (((MAX_CHUNK_SIZE \div 1024) \div 1024) * 8 * 60 * 1000) \div 10

\* ---------------------------------------------------- get_next_file_number
\* glob "result*.txt" on the base name
GlobResultTxt(name) ==
    /\ Len(name) >= 2
    /\ name[1] = "result"
    /\ name[Len(name)] = ".txt"

\* positions p of s where r'result(\d+)\.txt' matches: "result" at p, digits
\* up to q, ".txt" at q + 1
MatchEnd(s, p) ==
    {q \in (p + 1)..(Len(s) - 1) :
        /\ \A j \in (p + 1)..q : IsDigit(s[j])
        /\ s[q + 1] = ".txt"}

MatchStarts(s) == {p \in 1..Len(s) : s[p] = "result" /\ MatchEnd(s, p) # {}}

\* re.search: the leftmost match; group(1) are its digits
HasMatch(s) == MatchStarts(s) # {}

Group1(s) ==
    LET p == CHOOSE x \in MatchStarts(s) : \A y \in MatchStarts(s) : x <= y
        q == CHOOSE x \in MatchEnd(s, p) : TRUE
    IN  SubSeq(s, p + 1, q)

SetMax(S) == CHOOSE x \in S : \A y \in S : y <= x

\* the numbering as it would be without the + 1
get_next_file_number_no_increment(files) ==
    LET existing_files == {ResultsDirPrefix \o f.name :
                             f \in {g \in files : g.dir = "results"
                                                  /\ GlobResultTxt(g.name)}}
        numbers == {ParseInt(Group1(fn)) :
                      fn \in {x \in existing_files : HasMatch(x)}}
    IN  IF existing_files = {} THEN Format03d(1)
        ELSE IF numbers # {} THEN Format03d(SetMax(numbers))
        ELSE Format03d(1)

\* the numbering as it would be if it counted the files instead
get_next_file_number_by_count(files) ==
    LET existing_files == {ResultsDirPrefix \o f.name :
                             f \in {g \in files : g.dir = "results"
                                                  /\ GlobResultTxt(g.name)}}
    IN  IF existing_files = {} THEN Format03d(1)
        ELSE Format03d(Cardinality(existing_files) + 1)

get_next_file_number(files) ==
    LET existing_files == {ResultsDirPrefix \o f.name :
                             f \in {g \in files : g.dir = "results"
                                                  /\ GlobResultTxt(g.name)}}
        numbers == {ParseInt(Group1(fn)) :
                      fn \in {x \in existing_files : HasMatch(x)}}
    IN  IF existing_files = {} THEN Format03d(1)
        ELSE IF numbers # {} THEN Format03d(SetMax(numbers) + 1)
        ELSE Format03d(1)

\* f"result{file_number}.txt"
OutputFilename(file_number) == <<"result">> \o file_number \o <<".txt">>

\* -------------------------------------------------------------- split_audio
\* the window end as it would be without the clamp to the total duration
chunk_end_unclamped(i, chunk_duration, total_duration) ==
    (i + 1) * chunk_duration

\* start = i * chunk_duration
chunk_start(i, chunk_duration) == i * chunk_duration

\* end = min((i + 1) * chunk_duration, total_duration)
chunk_end(i, chunk_duration, total_duration) ==
    Min((i + 1) * chunk_duration, total_duration)

\* --------------------------------------------------------- transcribe_chunk
\* what the call does with the service's answer.  resp.kind is "text" (the
\* service returned resp.text), "api_error" (client.audio.transcriptions
\* .create raised) or "open_error" (open(chunk_path, "rb") raised, outside
\* the try).  Result: raised (the exception leaves transcribe_chunk), else
\* ok = FALSE for None, else the text.
transcribe_chunk_uncaught(resp) ==
    IF resp.kind = "text"
    THEN [raised |-> FALSE, ok |-> TRUE, text |-> resp.text]
    ELSE [raised |-> TRUE, ok |-> FALSE, text |-> <<>>]

transcribe_chunk(resp) ==
    IF resp.kind = "open_error"
    THEN [raised |-> TRUE, ok |-> FALSE, text |-> <<>>]
    ELSE IF resp.kind = "api_error"
    THEN [raised |-> FALSE, ok |-> FALSE, text |-> <<>>]
    ELSE [raised |-> FALSE, ok |-> TRUE, text |-> resp.text]

\* the loop body as it would be if a failed chunk left an empty fragment
collect_with_placeholder(ts, chunk_text) ==
    Append(ts, IF chunk_text.ok THEN chunk_text.text ELSE <<>>)

\* if chunk_text is None: continue; transcriptions.append(chunk_text)
collect(ts, chunk_text) ==
    IF ~chunk_text.ok THEN ts ELSE Append(ts, chunk_text.text)

\* " ".join(ts)
RECURSIVE Join(_)
Join(ts) ==
    IF ts = <<>> THEN <<>>
    ELSE IF Len(ts) = 1 THEN ts[1]
    ELSE Join(SubSeq(ts, 1, Len(ts) - 1)) \o <<" ">> \o ts[Len(ts)]

\* --------------------------------------------------------- transcribe_audio
\* os.path.exists
path_exists(files, p) == p \in files

\* convert_to_mp3's result as it would be if the except branch returned the
\* path of the file it had made
convert_result_keeping_path(how, mp3_path) ==
    IF how = "decode" THEN NoPath ELSE mp3_path

\* convert_to_mp3's result: return mp3_path, or None from the except branch
convert_result(how, mp3_path) ==
    IF how = "ok" THEN mp3_path ELSE NoPath

\* converted_path is None
is_none(p) == p = NoPath

\* the bookkeeping as it would be if it recorded the path it was given
track_source(tf, source_path, converted_path) == Append(tf, source_path)

\* audio_path = converted_path; temp_files.append(converted_path)
track_converted(tf, source_path, converted_path) == Append(tf, converted_path)

\* finally: remove every temp file that exists
remove_temp_files(files, tf) ==
    files \ {p \in Range(tf) : p # NoPath /\ path_exists(files, p)}

\* ------------------------------------------------------------ environment
\* the audio directory
AudioDir0 == {<<"talk", ".mp3">>, <<"clip", ".aac">>, <<"lecture", ".WAV">>}

\* the names transcribe_audio may be called with
FileNames == AudioDir0 \cup {<<"ghost", ".mp3">>}

\* the durations are taken around the multiples of 16 minutes
WindowMs == 16 * 60 * 1000

\* len(audio) in milliseconds
Durations ==
    {0, 1, LectureMs} \cup
    {d \in UNION {{n * WindowMs - 1, n * WindowMs, n * WindowMs + 1} :
                    n \in 1..MaxChunks} :
        d <= MaxChunks * WindowMs}

\* os.path.getsize(audio_path)
Sizes == {5 * MB, 50 * MB}

\* a library of short recordings: one chunk, or two with a short second one
ShortDurations == {1, WindowMs + 1}

ShortSizes == {5 * MB}

\* the texts the service returns
Texts == {<<"a">>, <<"b">>, <<>>}

Responses ==
    {[kind |-> "text", text |-> t] : t \in Texts} \cup
    {[kind |-> "api_error", text |-> <<>>],
     [kind |-> "open_error", text |-> <<>>]}

R(ds) == <<"result">> \o ds \o <<".txt">>

\* the results directory before the first run
InitialResults ==
    { {},
      {R(<<"0", "0", "1">>)},
      {R(<<"0", "0", "2">>)},
      {R(<<"0", "0", "1">>), R(<<"0", "0", "2">>)},
      {R(<<"7">>), <<"result", "s", ".txt">>},
      {<<"result", ".txt">>, <<"old", "result", "5", ".txt">>},
      {<<"result", "x", "result", "3", ".txt">>, <<"talk", ".txt">>},
      {R(<<"9", "9", "9">>), R(<<"1">>) \o <<".txt">>} }

\* ------------------------------------------------------------------- state
VARIABLES
    pc,                 \* position in transcribe_audio
    run,                \* number of calls of transcribe_audio so far
    fs,                 \* the paths that exist
    audio_filename,     \* argument of transcribe_audio
    audio_path,
    temp_files,
    chunks,             \* split_audio's list of chunk paths
    windows,            \* <<start, end>> of the slice exported to chunks[j]
    file_size,
    chunk_duration,
    total_duration,
    num_chunks,
    i,                  \* split_audio's loop index
    k,                  \* number of chunks the transcription loop has taken
    transcriptions,
    full_transcription,
    output_filename,
    ret,                \* return value of transcribe_audio, <<>> for None
    wrote,              \* the result file was written in this run
    result_text,        \* what was written to it
    conv,               \* "n/a", "ok" or "failed": convert_to_mp3 in this run
    created,            \* temporary files made in this run
    calls,              \* chunk numbers submitted to the service, in order
    outcomes,           \* the service's answer for each chunk taken
    fs_at_entry,        \* fs when transcribe_audio was entered
    io_fault,           \* the I/O operation that raised in this run, or "none"
    caught,             \* the except block of transcribe_audio ran
    history,            \* <<source, result file>> of every run that wrote
    faults              \* number of I/O operations that raised so far

vars == <<pc, run, fs, audio_filename, audio_path, temp_files, chunks, windows,
          file_size, chunk_duration, total_duration, num_chunks, i, k,
          transcriptions, full_transcription, output_filename, ret, wrote,
          result_text, conv, created, calls, outcomes, fs_at_entry, io_fault,
          caught, history, faults>>

\* the locals of one call, as they are on entry
FreshLocals ==
    /\ temp_files' = <<>>
    /\ chunks' = <<>>
    /\ windows' = <<>>
    /\ file_size' = 0
    /\ chunk_duration' = 0
    /\ total_duration' = 0
    /\ num_chunks' = 0
    /\ i' = 0
    /\ k' = 0
    /\ transcriptions' = <<>>
    /\ full_transcription' = <<>>
    /\ output_filename' = <<>>
    /\ ret' = <<>>
    /\ wrote' = FALSE
    /\ result_text' = <<>>
    /\ conv' = "n/a"
    /\ created' = {}
    /\ calls' = <<>>
    /\ outcomes' = <<>>
    /\ io_fault' = "none"
    /\ caught' = FALSE

Init ==
    /\ pc = "idle"
    /\ run = 0
    /\ \E rs \in InitialResults :
         fs = {AudioPath(n) : n \in AudioDir0} \cup {ResultPath(n) : n \in rs}
    /\ audio_filename = <<>>
    /\ audio_path = NoPath
    /\ temp_files = <<>>
    /\ chunks = <<>>
    /\ windows = <<>>
    /\ file_size = 0
    /\ chunk_duration = 0
    /\ total_duration = 0
    /\ num_chunks = 0
    /\ i = 0
    /\ k = 0
    /\ transcriptions = <<>>
    /\ full_transcription = <<>>
    /\ output_filename = <<>>
    /\ ret = <<>>
    /\ wrote = FALSE
    /\ result_text = <<>>
    /\ conv = "n/a"
    /\ created = {}
    /\ calls = <<>>
    /\ outcomes = <<>>
    /\ fs_at_entry = {}
    /\ io_fault = "none"
    /\ caught = FALSE
    /\ history = <<>>
    /\ faults = 0

\* transcribe_audio(api_key, audio_filename): lines 120-132, called at most
\* limit times
EnterUpTo(limit) ==
    /\ pc \in {"idle", "done"}
    /\ run < limit
    /\ \E fn \in FileNames :
         /\ audio_filename' = fn
         /\ audio_path' = AudioPath(fn)
    /\ FreshLocals
    /\ fs_at_entry' = fs
    /\ run' = run + 1
    /\ pc' = "validate"
    /\ UNCHANGED <<fs, history, faults>>

\* the program is run once
Enter == EnterUpTo(1)

\* the program is run again and again on the same directories
EnterAgain == EnterUpTo(MaxRuns)

\* lines 134-136: the source must exist
ValidateInput ==
    /\ pc = "validate"
    /\ IF ~path_exists(fs, audio_path)
       THEN pc' = "finally"
       ELSE pc' = "format"
    /\ UNCHANGED <<run, fs, audio_filename, audio_path, temp_files, chunks,
                   windows, file_size, chunk_duration, total_duration,
                   num_chunks, i, k, transcriptions, full_transcription,
                   output_filename, ret, wrote, result_text, conv, created,
                   calls, outcomes, fs_at_entry, io_fault, caught,
                   history, faults>>

\* lines 138-145 with convert_to_mp3 (lines 44-60).  how: "decode" (from_file
\* raised, no file made), "export" (the temporary file was made and export
\* raised) or "ok"; convert_to_mp3 returns None in the first two cases.
EnsureFormat ==
    /\ pc = "format"
    /\ IF is_supported_openai_format(audio_filename)
       THEN /\ pc' = "split_load"
            /\ UNCHANGED <<fs, audio_path, temp_files, conv, created, faults>>
       ELSE \E how \in {"decode", "export", "ok"} :
              LET mp3_path == FreshTmp(fs)
                  converted_path == convert_result(how, mp3_path)
              IN  /\ how # "ok" => faults < MaxFaults
                  /\ faults' = IF how = "ok" THEN faults ELSE faults + 1
                  /\ fs' = IF how = "decode" THEN fs ELSE fs \cup {mp3_path}
                  /\ created' = IF how = "decode" THEN created
                                ELSE created \cup {mp3_path}
                  /\ conv' = IF how = "ok" THEN "ok" ELSE "failed"
                  /\ IF is_none(converted_path)
                     THEN /\ pc' = "finally"
                          /\ UNCHANGED <<audio_path, temp_files>>
                     ELSE /\ audio_path' = converted_path
                          /\ temp_files' = track_converted(temp_files,
                                               audio_path, converted_path)
                          /\ pc' = "split_load"
    /\ UNCHANGED <<run, audio_filename, chunks, windows, file_size,
                   chunk_duration, total_duration, num_chunks, i, k,
                   transcriptions, full_transcription, output_filename, ret,
                   wrote, result_text, calls, outcomes, fs_at_entry, io_fault,
                   caught,
                   history>>

\* split_audio, lines 65-79: load the audio, plan the chunks.  from_file may
\* raise (the exception reaches transcribe_audio's except block).
SplitLoadFrom(Ds, Ss) ==
    /\ pc = "split_load"
    /\ \/ /\ faults < MaxFaults
          /\ faults' = faults + 1
          /\ io_fault' = "load"
          /\ caught' = TRUE
          /\ pc' = "finally"
          /\ UNCHANGED <<file_size, chunk_duration, total_duration,
                         num_chunks>>
       \/ /\ audio_path \in fs
          /\ \E d \in Ds, sz \in Ss :
               /\ total_duration' = d
               /\ file_size' = sz
               /\ chunk_duration' = get_chunk_duration(sz)
               /\ num_chunks' = CeilDiv(d, get_chunk_duration(sz))
          /\ pc' = "split"
          /\ UNCHANGED <<io_fault, caught, faults>>
    /\ UNCHANGED <<run, fs, audio_filename, audio_path, temp_files, chunks,
                   windows, i, k, transcriptions, full_transcription,
                   output_filename, ret, wrote, result_text, conv, created,
                   calls, outcomes, fs_at_entry,
                   history>>

SplitLoad == SplitLoadFrom(Durations, Sizes)

SplitLoadShort == SplitLoadFrom(ShortDurations, ShortSizes)

\* split_audio, lines 81-95: one iteration.  The temporary file is made, then
\* the slice is exported; export may raise, and then split_audio never
\* returns its list.
SplitChunk ==
    /\ pc = "split"
    /\ i < num_chunks
    /\ LET start == chunk_start(i, chunk_duration)
           end == chunk_end(i, chunk_duration, total_duration)
           chunk_path == FreshTmp(fs)
       IN  /\ fs' = fs \cup {chunk_path}
           /\ created' = created \cup {chunk_path}
           /\ \/ /\ chunks' = Append(chunks, chunk_path)
                 /\ windows' = Append(windows, <<start, end>>)
                 /\ i' = i + 1
                 /\ UNCHANGED <<pc, io_fault, caught, faults>>
              \/ /\ faults < MaxFaults
                 /\ faults' = faults + 1
                 /\ io_fault' = "export"
                 /\ caught' = TRUE
                 /\ pc' = "finally"
                 /\ UNCHANGED <<chunks, windows, i>>
    /\ UNCHANGED <<run, audio_filename, audio_path, temp_files, file_size,
                   chunk_duration, total_duration, num_chunks, k,
                   transcriptions, full_transcription, output_filename, ret,
                   wrote, result_text, conv, calls, outcomes, fs_at_entry,
                   history>>

\* lines 97 and 148-153: split_audio returns, temp_files.extend(chunks)
SplitReturn ==
    /\ pc = "split"
    /\ i >= num_chunks
    /\ temp_files' = temp_files \o chunks
    /\ pc' = "transcribe"
    /\ UNCHANGED <<run, fs, audio_filename, audio_path, chunks, windows,
                   file_size, chunk_duration, total_duration, num_chunks, i,
                   k, transcriptions, full_transcription, output_filename,
                   ret, wrote, result_text, conv, created, calls, outcomes,
                   fs_at_entry, io_fault, caught,
                   history, faults>>

\* lines 155-161: one iteration of the transcription loop
TranscribeChunk ==
    /\ pc = "transcribe"
    /\ k < Len(chunks)
    /\ \E resp \in Responses :
         LET chunk_text == transcribe_chunk(resp)
         IN  /\ resp.kind = "open_error" => faults < MaxFaults
             /\ faults' = IF resp.kind = "open_error" THEN faults + 1
                          ELSE faults
             /\ k' = k + 1
             /\ outcomes' = Append(outcomes, resp)
             /\ calls' = IF resp.kind = "open_error" THEN calls
                         ELSE Append(calls, k + 1)
             /\ io_fault' = IF resp.kind = "open_error" THEN "open"
                            ELSE io_fault
             /\ IF chunk_text.raised
                THEN /\ caught' = TRUE
                     /\ pc' = "finally"
                     /\ UNCHANGED transcriptions
                ELSE /\ transcriptions' = collect(transcriptions, chunk_text)
                     /\ UNCHANGED <<pc, caught>>
    /\ UNCHANGED <<run, fs, audio_filename, audio_path, temp_files, chunks,
                   windows, file_size, chunk_duration, total_duration,
                   num_chunks, i, full_transcription, output_filename, ret,
                   wrote, result_text, conv, created, fs_at_entry,
                   history>>

\* lines 163-175: join, name the result file, write it.  open(output_path,
\* "w") may raise, and then no file is written.
WriteResult ==
    /\ pc = "transcribe"
    /\ k >= Len(chunks)
    /\ full_transcription' = Join(transcriptions)
    /\ output_filename' = OutputFilename(get_next_file_number(fs))
    /\ \/ /\ fs' = fs \cup {ResultPath(output_filename')}
          /\ wrote' = TRUE
          /\ result_text' = full_transcription'
          /\ ret' = output_filename'
          /\ history' = Append(history, <<audio_filename, output_filename'>>)
          /\ UNCHANGED <<io_fault, caught, faults>>
       \/ /\ faults < MaxFaults
          /\ faults' = faults + 1
          /\ io_fault' = "write"
          /\ caught' = TRUE
          /\ UNCHANGED <<fs, wrote, result_text, ret, history>>
    /\ pc' = "finally"
    /\ UNCHANGED <<run, audio_filename, audio_path, temp_files, chunks,
                   windows, file_size, chunk_duration, total_duration,
                   num_chunks, i, k, transcriptions, conv, created, calls,
                   outcomes, fs_at_entry>>

\* lines 181-188: the finally block
Cleanup ==
    /\ pc = "finally"
    /\ fs' = remove_temp_files(fs, temp_files)
    /\ pc' = "done"
    /\ UNCHANGED <<run, audio_filename, audio_path, temp_files, chunks,
                   windows, file_size, chunk_duration, total_duration,
                   num_chunks, i, k, transcriptions, full_transcription,
                   output_filename, ret, wrote, result_text, conv, created,
                   calls, outcomes, fs_at_entry, io_fault, caught,
                   history, faults>>

Next ==
    \/ Enter
    \/ ValidateInput
    \/ EnsureFormat
    \/ SplitLoad
    \/ SplitChunk
    \/ SplitReturn
    \/ TranscribeChunk
    \/ WriteResult
    \/ Cleanup

\* one run of the program, over every duration, size and answer
Spec == Init /\ [][Next]_vars

NextRuns ==
    \/ EnterAgain
    \/ ValidateInput
    \/ EnsureFormat
    \/ SplitLoadShort
    \/ SplitChunk
    \/ SplitReturn
    \/ TranscribeChunk
    \/ WriteResult
    \/ Cleanup

\* successive runs of the program on short recordings
SpecRuns == Init /\ [][NextRuns]_vars

TypeOK ==
    /\ pc \in {"idle", "validate", "format", "split_load", "split",
               "transcribe", "finally", "done"}
    /\ run \in 0..MaxRuns
    /\ faults \in 0..MaxFaults
    /\ Len(chunks) = Len(windows)
    /\ k <= Len(chunks)

\* ------------------------------------------------------------------ claims
\* the source of this run existed when transcribe_audio was entered
SourceExisted == run >= 1 /\ AudioPath(audio_filename) \in fs_at_entry

SourceMissing == run >= 1 /\ AudioPath(audio_filename) \notin fs_at_entry

\* C1: when transcribe_audio has ended, no temporary file made during the
\* run (the converted mp3, the chunk files) still exists.
C1_NoTempFileLeft == pc = "done" => created \cap fs = {}

\* C2: the text written to the result file is the fragments of the chunks
\* the service answered, in chunk order, joined by one space, with nothing
\* standing in for a failed chunk.
IsText(resp) == resp.kind = "text"

RECURSIVE SpaceJoined(_)
SpaceJoined(fr) ==
    IF fr = <<>> THEN <<>>
    ELSE IF Len(fr) = 1 THEN fr[1].text
    ELSE fr[1].text \o <<" ">> \o SpaceJoined(Tail(fr))

C2_TextIsSuccessfulFragmentsInOrder ==
    wrote => result_text = SpaceJoined(SelectSeq(outcomes, IsText))

C2_Witness ==
    /\ pc = "done"
    /\ wrote
    /\ Len(outcomes) = 3
    /\ outcomes[1] = [kind |-> "text", text |-> <<"a">>]
    /\ outcomes[2].kind = "api_error"
    /\ outcomes[3] = [kind |-> "text", text |-> <<"b">>]
    /\ result_text = <<"a", " ", "b">>

BaseNameTxt(base) == <<base, ".txt">>

BaseNameV(base, n) == <<base, "_v">> \o IntToDigits(n) \o <<".txt">>

SpecResultName(files, base) ==
    IF ResultPath(BaseNameTxt(base)) \notin files THEN BaseNameTxt(base)
    ELSE BaseNameV(base,
           CHOOSE n \in 1..(Cardinality(files) + 1) :
             /\ ResultPath(BaseNameV(base, n)) \notin files
             /\ \A m \in 1..(n - 1) : ResultPath(BaseNameV(base, m)) \in files)

ResultNumbersAtEntry ==
    {ParseInt(Group1(ResultsDirPrefix \o p.name)) :
        p \in {q \in fs_at_entry : /\ q.dir = "results"
                                   /\ GlobResultTxt(q.name)
                                   /\ HasMatch(ResultsDirPrefix \o q.name)}}

C5_NeverOverwrites ==
    /\ wrote => ResultPath(output_filename) \notin fs_at_entry
    /\ \A a, b \in 1..Len(history) : a # b => history[a][2] # history[b][2]
    /\ \A a \in 1..Len(history) : ResultPath(history[a][2]) \in fs

C5_Witness ==
    /\ pc = "done"
    /\ Len(history) = 2
    /\ history[1][1] = history[2][1]
    /\ history[1][2] # history[2][2]
    /\ ResultPath(R(<<"0", "0", "2">>)) \in fs_at_entry

\* C6: split_audio makes ceil(D / C) chunks; chunk i covers
\* [i*C, min((i+1)*C, D)): all but the last have length C, the last has
\* length D - C*(n-1), and the windows follow one another from 0 to D.
SplitCompleted == file_size # 0 /\ Len(windows) = num_chunks

C6_WindowsPartitionDuration ==
    LET n == Len(windows)
        C == chunk_duration
        D == total_duration
    IN  /\ \A j \in 1..n :
               /\ windows[j][1] = (j - 1) * C
               /\ windows[j][1] < windows[j][2]
               /\ windows[j][2] <= D
               /\ j < n => windows[j][2] = windows[j + 1][1]
               /\ (j < n \/ ~SplitCompleted) => windows[j][2] - windows[j][1] = C
        /\ SplitCompleted =>
               /\ n * C >= D
               /\ n > 0 => (n - 1) * C < D
               /\ n > 0 => windows[n][2] = D
               /\ n > 0 => windows[n][2] - windows[n][1] = D - C * (n - 1)

C6_Witness ==
    /\ pc = "transcribe"
    /\ total_duration = 2 * WindowMs + 1
    /\ windows = <<<<0, WindowMs>>, <<WindowMs, 2 * WindowMs>>,
                   <<2 * WindowMs, 2 * WindowMs + 1>>>>

\* C7: the planned chunk duration is floor(0.8 * (M / 1MB) * 60000)
\* milliseconds whatever the size of the file.
PlannedMs == (8 * (MAX_CHUNK_SIZE \div MB) * 60000) \div 10

C7_ChunkDurationIgnoresFileSize ==
    file_size # 0 => chunk_duration = PlannedMs

C7_Witness ==
    /\ pc = "split"
    /\ file_size = 5 * MB
    /\ chunk_duration = 960000

\* C8 as stated: a 45-minute source is planned in chunks of 12.8 minutes and
\* gives 4 chunks and 4 transcription calls.
C8_FourChunks ==
    pc = "done" /\ wrote /\ total_duration = LectureMs =>
        /\ chunk_duration = 768000
        /\ Len(chunks) = 4
        /\ Len(calls) = 4

\* C8 amended: a 45-minute source is planned in chunks of 16 minutes, in 3
\* chunks, and a run that writes its result has made 3 chunks and 3
\* transcription calls.
C8_ThreeChunks ==
    file_size # 0 /\ total_duration = LectureMs =>
        /\ chunk_duration = 16 * 60 * 1000
        /\ num_chunks = 3
        /\ wrote => /\ Len(chunks) = 3
                    /\ calls = <<1, 2, 3>>
                    /\ windows[3][2] - windows[3][1] = 13 * 60 * 1000

C8_Witness ==
    /\ pc = "done"
    /\ wrote
    /\ total_duration = LectureMs
    /\ Len(chunks) = 3
    /\ Len(calls) = 3

\* C9: when the source does not exist, or convert_to_mp3 returns None, the
\* run makes no chunk and no transcription call, writes no result file and
\* returns None.
C9_FailedSetupDoesNothing ==
    SourceMissing \/ conv = "failed" =>
        /\ pc \in {"validate", "format", "finally", "done"}
        /\ chunks = <<>>
        /\ windows = <<>>
        /\ \A p \in created : p \notin fs_at_entry /\ Cardinality(created) <= 1
        /\ SourceMissing => created = {}
        /\ calls = <<>>
        /\ ~wrote
        /\ ret = <<>>
        /\ {p \in fs : p.dir = "results"} =
               {p \in fs_at_entry : p.dir = "results"}

C9_Witness ==
    /\ pc = "done"
    /\ conv = "failed"
    /\ audio_filename = <<"clip", ".aac">>

\* C10: the source file stays in the audio directory on every exit path;
\* nothing that existed when the run began is deleted.
C10_SourceLeftInPlace ==
    /\ fs_at_entry \subseteq fs
    /\ SourceExisted => AudioPath(audio_filename) \in fs

C10_Witness ==
    /\ pc = "done"
    /\ conv = "ok"
    /\ created # {}
    /\ created \cap fs = {}
    /\ AudioPath(audio_filename) \in fs

====
